---- MODULE Spec2Model ----
(***************************************************************************)
(* Model of the delete-user-data activity of io-functions-admin            *)
(* (src/DeleteUserDataActivity/handler.ts): the cascading backup-and-      *)
(* delete of every record owned by a user.                                 *)
(*                                                                         *)
(* A TaskEither is lazy and is run by the handler's .run().  The instance  *)
(* `taskEither` combines its arguments in parallel (all are started        *)
(* together and all are awaited, the left of the earliest argument wins),  *)
(* the instance `taskEitherSeq` and `.chain` run them one after the other  *)
(* and stop at the first left.  Every external call (query, page fetch,    *)
(* blob read, blob save, delete) is a step of the model that succeeds or   *)
(* fails; the steps of parallel branches interleave freely.                *)
(*                                                                         *)
(* The paged source (IResultIterator of io-functions-commons) is outside   *)
(* the repository: it is modelled by its contract, a stateful cursor that  *)
(* hands out each page once and answers none once exhausted.               *)
(***************************************************************************)
EXTENDS Integers, Sequences, FiniteSets, TLC

\* ---------------------------------------------------------------- bounds
MaxMessages == 2
MaxVersions == 2
MaxNotifications == 1
MaxPageSize == 2
MaxRecords == 3
MaxRerunRecords == 2
MaxAttempts == 2
MaxRuns == 2

VARIABLES
  cfg,          \* the activity input and the data the user owns at the start
  store,        \* records present in the primary store (db and content blobs)
  backup,       \* the backup container: set of [path, content]
  saveCalls,    \* number of saveDataToBlob calls per record
  deleteCalls,  \* number of delete calls per record
  savedOk,      \* records whose saveDataToBlob call completed successfully
  pc,           \* position of the backup-and-delete chain of each record
  call,         \* state of each executeNext call (root call or recursive step)
  got,          \* index of the page an executeNext call returned
  cursor,       \* number of pages each iterator has handed out
  qMsg,         \* state of the findMessages query
  qNotif,       \* state of the findNotificationsForMessage query per message
  result,       \* what the activity returned
  firstFailure, \* kind of the failure that was created first in time, if any
  owned,        \* records that were in the store when this invocation started
  previous,     \* what the invocation before this one returned, if any
  document,     \* the input given to the download sub-orchestrator
  status,       \* the persisted status of the job the document is about
  step,         \* position of the sub-orchestrator
  attempts,     \* attempts made of the business step that is running
  activities,   \* the activity calls the sub-orchestrator has issued, in order
  failure,      \* the failure the sub-orchestrator is about to return
  outcome,      \* what the sub-orchestrator returned
  outcomes,     \* whether each activity attempt of this run succeeded, in order
  runs,         \* number of times the job has been offered to the sub-orchestrator
  token,        \* expiry time of the token the subscription-keys handler holds
  now,          \* the clock the subscription-keys handler reads
  kstep,        \* position of the subscription-keys handler
  logins,       \* logins the running subscription-keys request has made
  lookup,       \* how the subscription lookup of the running request ended
  response,     \* kind of the response the subscription-keys handler returned
  other,        \* the cascade that runs beside this one for the same user, paused
  input,        \* what the download orchestrator was started with
  subTasks,     \* places in the input of the documents a sub-orchestration was
                \* started for, in the order of the calls
  completed,    \* the sub-orchestrations, by place in subTasks, that have ended
  ostep,        \* position of the download orchestrator
  apim,         \* what the API management holds for the email GetUser is asked
  ustep,        \* position of the GetUser handler
  userList,     \* what user.listByService returned
  groups,       \* state of the getUserGroups call
  subs,         \* state of the getUserSubscriptions call
  uresponse     \* the response GetUser returned

cascadeVars == <<cfg, store, backup, saveCalls, deleteCalls, savedOk, pc, call, got,
                 cursor, qMsg, qNotif, result, firstFailure, owned, previous>>

workflowVars ==
  <<document, status, step, attempts, activities, failure, outcome, outcomes, runs>>

keysVars == <<token, now, kstep, logins, lookup, response>>

raceVars == <<other>>

batchVars == <<input, subTasks, completed, ostep>>

userVars == <<apim, ustep, userList, groups, subs, uresponse>>

moreVars == <<raceVars, batchVars, userVars>>

vars == <<cascadeVars, workflowVars, keysVars, moreVars>>

\* ------------------------------------------------------------ data model
NoId == 0 - 1
NoVersion == 0 - 1

Rec(k, m, n, v) == [kind |-> k, m |-> m, n |-> n, v |-> v]

Profile(v) == Rec("profile", 0, 0, v)
Message(m) == Rec("message", m, 0, NoVersion)
MessageContent(m) == Rec("messagecontent", m, 0, NoVersion)
MessageStatus(m, v) == Rec("message-status", m, 0, v)
Notification(m, n) == Rec("notification", m, n, NoVersion)
NotificationStatus(m, n, v) == Rec("notification-status", m, n, v)

\* the models whose documents are versioned and read through an iterator
VersionedKinds == {"profile", "message-status", "notification-status"}

\* an iterator is named by the kind of its items and by their owner
Iterator(k, m, n) == Rec(k, m, n, NoVersion)
ProfileIterator == Iterator("profile", 0, 0)
IteratorOf(c) == [c EXCEPT !.v = NoVersion]

\* ids of the documents: message.id and notification.id are unique
MessageId(m) == m
NotificationId(m, n) == m * (MaxNotifications + 1) + n

Msgs(c) == 1..Len(c.msgs)
Notifs(c, m) == 1..Len(c.msgs[m].notifs)

RecordsOf(c) ==
  {Profile(v) : v \in 0..(c.nProfile - 1)}
  \cup {Message(m) : m \in Msgs(c)}
  \cup {MessageContent(m) : m \in {x \in Msgs(c) : c.msgs[x].content}}
  \cup UNION {{MessageStatus(m, v) : v \in 0..(c.msgs[m].nStatus - 1)} : m \in Msgs(c)}
  \cup UNION {{Notification(m, n) : n \in Notifs(c, m)} : m \in Msgs(c)}
  \cup UNION {UNION {{NotificationStatus(m, n, v) : v \in 0..(c.msgs[m].notifs[n] - 1)}
                     : n \in Notifs(c, m)} : m \in Msgs(c)}

\* the chains of the cascade: one per record, and the content step of every
\* message (which runs whether the content blob exists or not)
ItemsOf(c) == RecordsOf(c) \cup {MessageContent(m) : m \in Msgs(c)}

IteratorsOf(c) ==
  {ProfileIterator}
  \cup {Iterator("message-status", m, 0) : m \in Msgs(c)}
  \cup UNION {{Iterator("notification-status", m, n) : n \in Notifs(c, m)} : m \in Msgs(c)}

\* executeNext is called once at the root of a walk and once per item
CallsOf(c) == IteratorsOf(c) \cup {r \in RecordsOf(c) : r.kind \in VersionedKinds}

Min(a, b) == IF a < b THEN a ELSE b

\* the users the model starts from: at most MaxRecords records in all.
\* notifs gives, for each notification of a message, the number of versions
\* of its status
RECURSIVE NotifSeqs(_, _)
NotifSeqs(n, budget) ==
  {<< >>} \cup
  IF n = 0 \/ budget < 1 THEN {}
  ELSE UNION {{<<v>> \o t : t \in NotifSeqs(n - 1, budget - 1 - v)}
              : v \in 0..Min(MaxVersions, budget - 1)}

RECURSIVE SumSeq(_)
SumSeq(s) == IF s = << >> THEN 0 ELSE Head(s) + SumSeq(Tail(s))

MessageSize(x) ==
  1 + (IF x.content THEN 1 ELSE 0) + x.nStatus + Len(x.notifs) + SumSeq(x.notifs)

MessageShapes(budget) ==
  UNION {UNION {{[content |-> c, nStatus |-> s, notifs |-> ns]
                 : ns \in NotifSeqs(MaxNotifications,
                                    budget - 1 - (IF c THEN 1 ELSE 0) - s)}
                : s \in 0..Min(MaxVersions, budget - 1 - (IF c THEN 1 ELSE 0))}
         : c \in {x \in BOOLEAN : ~x \/ budget >= 2}}

RECURSIVE MessageSeqs(_, _)
MessageSeqs(n, budget) ==
  {<< >>} \cup
  IF n = 0 \/ budget < 1 THEN {}
  ELSE UNION {{<<x>> \o t : t \in MessageSeqs(n - 1, budget - MessageSize(x))}
              : x \in MessageShapes(budget)}

LongestHistory(c) ==
  LET lens == {c.nProfile} \cup {c.msgs[m].nStatus : m \in Msgs(c)}
              \cup UNION {{c.msgs[m].notifs[n] : n \in Notifs(c, m)} : m \in Msgs(c)}
  IN CHOOSE l \in lens : \A k \in lens : k <= l

Configs ==
  {c \in UNION {[valid : BOOLEAN,
                 nProfile : {p},
                 msgs : MessageSeqs(MaxMessages, MaxRecords - p),
                 pageSize : 1..MaxPageSize] : p \in 0..Min(MaxVersions, MaxRecords)} :
     \* a page size beyond the longest history behaves as that length does
     c.pageSize = 1 \/ c.pageSize <= LongestHistory(c)}

\* ------------------------------------------------------- the paged source
RECURSIVE Sorted(_)
Sorted(S) ==
  IF S = {} THEN << >>
  ELSE LET x == CHOOSE a \in S : \A b \in S : a <= b
       IN <<x>> \o Sorted(S \ {x})

VersionsEverOwned(w) ==
  {r.v : r \in {x \in RecordsOf(cfg) : x.kind = w.kind /\ x.m = w.m /\ x.n = w.n}}

\* the versions the query behind iterator w finds: those still in the store
\* when the invocation started
VersionsOf(w) ==
  {r.v : r \in {x \in owned : x.kind = w.kind /\ x.m = w.m /\ x.n = w.n}}

NumVersions(w) == Cardinality(VersionsOf(w))

NumPages(w) == (NumVersions(w) + cfg.pageSize - 1) \div cfg.pageSize

\* a source that hands its first page out again at every fetch
FirstPageAgain(w, k) ==
  LET vs == Sorted(VersionsOf(w))
  IN [i \in 1..Min(Len(vs), cfg.pageSize) |-> Rec(w.kind, w.m, w.n, vs[i])]

\* the k-th page (from 0) of iterator w, in the order of the source
Page(w, k) ==
  LET vs == Sorted(VersionsOf(w))
  IN [i \in 1..(Min(Len(vs), (k + 1) * cfg.pageSize) - k * cfg.pageSize) |->
        Rec(w.kind, w.m, w.n, vs[k * cfg.pageSize + i])]

\* what findMessages and findNotificationsForMessage find
FoundMessages == Sorted({m \in Msgs(cfg) : Message(m) \in owned})
FoundNotifications(m) == Sorted({n \in Notifs(cfg, m) : Notification(m, n) \in owned})

Range(s) == {s[i] : i \in DOMAIN s}

\* ------------------------------------------------------------ blob names
\* makeBackupBlobName of each model, under the backup folder of the input
BlobName(r) ==
  CASE r.kind = "profile" -> [type |-> "profile", id |-> NoId, version |-> r.v]
    [] r.kind = "message" ->
         [type |-> "message", id |-> MessageId(r.m), version |-> NoVersion]
    [] r.kind = "messagecontent" ->
         [type |-> "messagecontent", id |-> MessageId(r.m), version |-> NoVersion]
    [] r.kind = "message-status" ->
         [type |-> "message-status", id |-> NoId, version |-> r.v]
    [] r.kind = "notification" ->
         [type |-> "notification", id |-> NotificationId(r.m, r.n), version |-> NoVersion]
    [] r.kind = "notification-status" ->
         [type |-> "notification-status", id |-> NoId, version |-> r.v]

ReplaceContainer(b, name, data) == {[path |-> name, content |-> data]}

\* createBlockBlobFromText creates or overwrites the blob of that name
WriteBlob(b, name, data) ==
  {x \in b : x.path # name} \cup {[path |-> name, content |-> data]}

\* ------------------------------------------------------ results (Either)
SaveFailureAsDeleteFailure == "DELETE_FAILURE"
SaveFailureKind == "BLOB_FAILURE"
DeleteFailureAsBlobFailure == "BLOB_FAILURE"
DeleteFailureKind == "DELETE_FAILURE"
QueryFailureAsUserNotFound == "USER_NOT_FOUND_FAILURE"
QueryFailureKind == "QUERY_FAILURE"

RECURSIVE FirstLeftFrom(_, _)
FirstLeftFrom(rs, i) ==
  IF i > Len(rs) THEN "OK"
  ELSE IF rs[i] # "OK" THEN rs[i] ELSE FirstLeftFrom(rs, i + 1)

\* array.sequence(taskEither) and sequenceT(taskEither): every task is run and
\* awaited; the result is the left of the earliest task in argument order
ParallelRes(rs) ==
  IF \E i \in DOMAIN rs : rs[i] = "PENDING" THEN "PENDING" ELSE FirstLeftFrom(rs, 1)

RECURSIVE CallRes(_), ItemRes(_)

\* the result of the chain [save, delete, recursive step] of one item
ItemRes(r) ==
  CASE pc[r] = "failSave" -> SaveFailureKind
    [] pc[r] = "failDelete" -> DeleteFailureKind
    [] pc[r] = "done" -> IF r.kind \in VersionedKinds THEN CallRes(r) ELSE "OK"
    [] pc[r] \in {"absent", "readFailed"} -> "OK"
    [] OTHER -> "PENDING"

\* the result of one call of executeRecursiveBackupAndDelete
CallRes(c) ==
  CASE call[c] = "fail" -> QueryFailureKind
    [] call[c] = "none" -> "OK"
    [] call[c] = "page" ->
         LET p == Page(IteratorOf(c), got[c])
         IN ParallelRes([i \in DOMAIN p |-> ItemRes(p[i])])
    [] OTHER -> "PENDING"

\* values of the array a walk returns: an item, or an array of values
ItemValue(r) == [isItem |-> TRUE, item |-> r, list |-> << >>]
ArrayValue(s) == [isItem |-> FALSE, item |-> Rec("none", 0, 0, NoVersion), list |-> s]

RECURSIVE CallValue(_)

\* the array one successful call of executeRecursiveBackupAndDelete returns:
\* empty on none; on a page, array.sequence of what each item maps to, which
\* is the array [item, ...nextResults] of that item's own recursive step
CallValue(c) ==
  IF call[c] = "page"
    THEN LET p == Page(IteratorOf(c), got[c])
         IN [i \in DOMAIN p |-> ArrayValue(<<ItemValue(p[i])>> \o CallValue(p[i]))]
    ELSE << >>

\* sequenceT(taskEitherSeq)(notification statuses, notification)
NotificationRes(m, n) ==
  LET s == CallRes(Iterator("notification-status", m, n))
  IN IF s # "OK" THEN s ELSE ItemRes(Notification(m, n))

AllNotificationsRes(m) ==
  CASE qNotif[m] = "fail" -> QueryFailureKind
    [] qNotif[m] = "ok" ->
         LET ns == FoundNotifications(m)
         IN ParallelRes([i \in DOMAIN ns |-> NotificationRes(m, ns[i])])
    [] OTHER -> "PENDING"

\* sequenceT(taskEither)(content, message statuses, notifications data)
ChildrenRes(m) ==
  ParallelRes(<<ItemRes(MessageContent(m)),
                CallRes(Iterator("message-status", m, 0)),
                AllNotificationsRes(m)>>)

MessageRes(m) ==
  LET s == ChildrenRes(m) IN IF s # "OK" THEN s ELSE ItemRes(Message(m))

AllMessagesRes ==
  CASE qMsg = "fail" -> QueryFailureKind
    [] qMsg = "ok" ->
         LET ms == FoundMessages
         IN ParallelRes([i \in DOMAIN ms |-> MessageRes(ms[i])])
    [] OTHER -> "PENDING"

AllUserDataRes ==
  LET s == AllMessagesRes IN IF s # "OK" THEN s ELSE CallRes(ProfileIterator)

\* ---------------------------------------------------------------- guards
ParentStartsWhateverTheOutcome(r) ==
  CASE r.kind = "message" -> ChildrenRes(r.m) # "PENDING"
    [] r.kind = "notification" ->
         CallRes(Iterator("notification-status", r.m, r.n)) # "PENDING"
    [] OTHER -> FALSE

NotificationBesideStatuses(r) ==
  CASE r.kind = "message" -> ChildrenRes(r.m) = "OK"
    [] r.kind = "notification" -> qNotif[r.m] = "ok"
    [] OTHER -> FALSE

\* .chain at the end of a message's children, taskEitherSeq for a notification
ParentMayStart(r) ==
  CASE r.kind = "message" -> ChildrenRes(r.m) = "OK"
    [] r.kind = "notification" ->
         CallRes(Iterator("notification-status", r.m, r.n)) = "OK"
    [] OTHER -> FALSE

CanSave(r) == pc[r] = "save" \/ (pc[r] = "idle" /\ ParentMayStart(r))

DeleteBesideSave(r) == pc[r] \in {"save", "delete"}
CanDelete(r) == pc[r] = "delete"

NoRecursiveStep(r) == IF r.kind \in VersionedKinds THEN "none" ELSE "idle"

\* the recursive step that follows the delete of an item of a page
AfterDelete(r) == IF r.kind \in VersionedKinds THEN "inflight" ELSE "idle"

DecodesAnything(c) == TRUE

\* ActivityInput.decode: a non-empty backupFolder and a fiscal code
Decodes(c) == c.valid

BackupOfNoContent(m) == "save"

\* maybeContent.fold: nothing to back up when the blob holds no content
ContentReadOutcome(m) == IF MessageContent(m) \in store THEN "save" ELSE "absent"

\* a failure of kind k is created now: it is the first one unless one exists
Noted(k) == IF firstFailure = "none" THEN k ELSE firstFailure

ProfileBesideMessages == qMsg = "ok"
ProfileMayStart == AllMessagesRes = "OK"

\* --------------------------------------------- the download sub-orchestrator
\* results of the sub-orchestrator
NoOutcome == [kind |-> "none", activityName |-> "none", extra |-> "none"]
OrchestratorSuccess == [kind |-> "SUCCESS", activityName |-> "none", extra |-> "none"]
InvalidInputFailure == [kind |-> "INVALID_INPUT", activityName |-> "none", extra |-> "none"]
ActivityFailureWithoutExtra(name, x) ==
  [kind |-> "ACTIVITY_FAILURE", activityName |-> name, extra |-> "none"]

ActivityFailureUnnamed(name, x) ==
  [kind |-> "ACTIVITY_FAILURE", activityName |-> "none", extra |-> x]

ActivityFailure(name, x) == [kind |-> "ACTIVITY_FAILURE", activityName |-> name, extra |-> x]
OrchestrationError == [kind |-> "FATAL", activityName |-> "none", extra |-> "none"]

UserDataProcessingStatus == {"PENDING", "WIP", "CLOSED", "FAILED"}

\* the inputs: something that is no job document, or the document of a job
Documents ==
  {[valid |-> FALSE, status |-> "none"]}
  \cup {[valid |-> TRUE, status |-> s] : s \in UserDataProcessingStatus}

AnyUserDataProcessing(d) == d.valid

PendingOrFailed(d) == d.status \notin {"WIP", "CLOSED"}

AcceptsClosed(d) == d.valid /\ d.status \in {"PENDING", "FAILED", "CLOSED"}

\* the documents the orchestrators accept: a UserDataProcessing whose status
\* is PENDING or FAILED
ProcessableUserDataProcessing(d) == d.valid /\ d.status \in {"PENDING", "FAILED"}

\* no document has been given to the sub-orchestrator
\* the value of the cached token when the handler was built without one
NoToken == 0 - 1

\* the lookup has not returned
NoLookup == [kind |-> "none", statusCode |-> 0]

\* no request has reached the subscription-keys handler, built without a token
KeysIdle ==
  /\ token = NoToken
  /\ now = 0
  /\ kstep = "idle"
  /\ logins = 0
  /\ lookup = NoLookup
  /\ response = "none"

WorkflowIdle ==
  /\ document = [valid |-> FALSE, status |-> "none"]
  /\ status = "PENDING"
  /\ step = "idle"
  /\ attempts = 0
  /\ activities = << >>
  /\ failure = NoOutcome
  /\ outcome = NoOutcome
  /\ outcomes = << >>
  /\ runs = 0

\* an invocation of the handler for a user who owns c, not yet started
Fresh(c) ==
  [saveCalls |-> [r \in ItemsOf(c) |-> 0],
   deleteCalls |-> [r \in ItemsOf(c) |-> 0],
   savedOk |-> {},
   pc |-> [r \in ItemsOf(c) |-> "idle"],
   call |-> [x \in CallsOf(c) |-> "idle"],
   got |-> [x \in CallsOf(c) |-> 0],
   cursor |-> [w \in IteratorsOf(c) |-> 0],
   qMsg |-> "idle",
   qNotif |-> [m \in Msgs(c) |-> "idle"],
   result |-> "none",
   firstFailure |-> "none",
   owned |-> RecordsOf(c)]

\* a user who owns nothing, given with an input that does not decode
NoUser == [valid |-> FALSE, nProfile |-> 0, msgs |-> << >>, pageSize |-> 1]

\* there is no second invocation
RaceIdle == other = Fresh(NoUser)

\* the download orchestrator has not been started
BatchIdle ==
  /\ input = [isArray |-> FALSE, documents |-> << >>]
  /\ subTasks = << >>
  /\ completed = {}
  /\ ostep = "idle"

\* getUserSubscriptions has not been called
NoSubscriptions == [state |-> "idle", list |-> << >>, nextLink |-> 0, requests |-> << >>]

\* GetUser has returned nothing
NoResponse == [kind |-> "none", subscriptions |-> << >>]

\* no request has reached the GetUser handler
UserIdle ==
  /\ apim = [users |-> "empty", pages |-> <<0>>]
  /\ ustep = "idle"
  /\ userList = "none"
  /\ groups = "idle"
  /\ subs = NoSubscriptions
  /\ uresponse = NoResponse

MoreIdle == RaceIdle /\ BatchIdle /\ UserIdle

\* ------------------------------------------------------------------ Init
\* the handler has been built and not yet invoked, for a user who owns c
Invocation(c) ==
  /\ cfg = c
  /\ store = RecordsOf(c)
  /\ backup = {}
  /\ saveCalls = [r \in ItemsOf(c) |-> 0]
  /\ deleteCalls = [r \in ItemsOf(c) |-> 0]
  /\ savedOk = {}
  /\ pc = [r \in ItemsOf(c) |-> "idle"]
  /\ call = [x \in CallsOf(c) |-> "idle"]
  /\ got = [x \in CallsOf(c) |-> 0]
  /\ cursor = [w \in IteratorsOf(c) |-> 0]
  /\ qMsg = "idle"
  /\ qNotif = [m \in Msgs(c) |-> "idle"]
  /\ result = "none"
  /\ firstFailure = "none"
  /\ owned = RecordsOf(c)
  /\ previous = "none"

\* the activity alone: nothing else runs
StartWith(c) ==
  /\ Invocation(c)
  /\ WorkflowIdle
  /\ KeysIdle
  /\ MoreIdle

Init == \E c \in Configs : StartWith(c)

\* --------------------------------------------------------------- actions
\* the handler is invoked: the input is decoded and, when valid, the cascade
\* starts with the findMessages query
Invoke ==
  /\ result = "none"
  /\ qMsg = "idle"
  /\ IF Decodes(cfg)
       THEN /\ qMsg' = "inflight"
            /\ UNCHANGED result
       ELSE /\ result' = "INVALID_INPUT_FAILURE"
            /\ UNCHANGED qMsg
  /\ UNCHANGED <<cfg, store, backup, saveCalls, deleteCalls, savedOk, pc, call,
                 got, cursor, qNotif, firstFailure>>
  /\ UNCHANGED <<owned, previous, workflowVars, keysVars, moreVars>>

\* iteratorToArray(findMessages) returns: on success the three children of
\* every message are started together
FindMessages ==
  /\ qMsg = "inflight"
  /\ \/ /\ qMsg' = "fail"
        /\ firstFailure' = Noted(QueryFailureKind)
        /\ UNCHANGED <<pc, call, qNotif>>
     \/ /\ qMsg' = "ok"
        /\ UNCHANGED firstFailure
        /\ pc' = [r \in DOMAIN pc |->
                    IF r.kind = "messagecontent" /\ r.m \in Range(FoundMessages)
                      THEN "read" ELSE pc[r]]
        /\ call' = [c \in DOMAIN call |->
                      IF /\ c.kind = "message-status" /\ c.v = NoVersion
                         /\ c.m \in Range(FoundMessages)
                        THEN "inflight" ELSE call[c]]
        /\ qNotif' = [m \in DOMAIN qNotif |->
                        IF m \in Range(FoundMessages) THEN "inflight" ELSE qNotif[m]]
  /\ UNCHANGED <<cfg, store, backup, saveCalls, deleteCalls, savedOk, got,
                 cursor, result>>
  /\ UNCHANGED <<owned, previous, workflowVars, keysVars, moreVars>>

\* getContentFromBlob returns: the content, or no content when the blob is
\* absent, or a failure, which the fold turns into no content as well
ReadContent(m) ==
  /\ pc[MessageContent(m)] = "read"
  /\ \/ /\ MessageContent(m) \in store
        /\ pc' = [pc EXCEPT ![MessageContent(m)] = "readFailed"]
     \/ pc' = [pc EXCEPT ![MessageContent(m)] = ContentReadOutcome(m)]
  /\ UNCHANGED <<cfg, store, backup, saveCalls, deleteCalls, savedOk, call, got,
                 cursor, qMsg, qNotif, result, firstFailure>>
  /\ UNCHANGED <<owned, previous, workflowVars, keysVars, moreVars>>

\* iteratorToArray(findNotificationsForMessage) returns: on success the
\* status walk of every notification is started
FindNotifications(m) ==
  /\ qNotif[m] = "inflight"
  /\ \/ /\ qNotif' = [qNotif EXCEPT ![m] = "fail"]
        /\ firstFailure' = Noted(QueryFailureKind)
        /\ UNCHANGED call
     \/ /\ qNotif' = [qNotif EXCEPT ![m] = "ok"]
        /\ UNCHANGED firstFailure
        /\ call' = [c \in DOMAIN call |->
                      IF /\ c.kind = "notification-status" /\ c.v = NoVersion
                         /\ c.m = m /\ c.n \in Range(FoundNotifications(m))
                        THEN "inflight" ELSE call[c]]
  /\ UNCHANGED <<cfg, store, backup, saveCalls, deleteCalls, savedOk, pc, got,
                 cursor, qMsg, result>>
  /\ UNCHANGED <<owned, previous, workflowVars, keysVars, moreVars>>

\* the profile walk is chained after the cascade of all the messages
StartProfile ==
  /\ call[ProfileIterator] = "idle"
  /\ ProfileMayStart
  /\ call' = [call EXCEPT ![ProfileIterator] = "inflight"]
  /\ UNCHANGED <<cfg, store, backup, saveCalls, deleteCalls, savedOk, pc, got,
                 cursor, qMsg, qNotif, result, firstFailure>>
  /\ UNCHANGED <<owned, previous, workflowVars, keysVars, moreVars>>

\* iterator.executeNext returns to call c: a failure, none, or the next page,
\* whose items are then all started together
ExecuteNext(c) ==
  /\ call[c] = "inflight"
  /\ LET w == IteratorOf(c) IN
       \/ /\ call' = [call EXCEPT ![c] = "fail"]
          /\ firstFailure' = Noted(QueryFailureKind)
          /\ UNCHANGED <<got, cursor, pc>>
       \/ /\ cursor[w] >= NumPages(w)
          /\ call' = [call EXCEPT ![c] = "none"]
          /\ UNCHANGED <<got, cursor, pc, firstFailure>>
       \/ /\ cursor[w] < NumPages(w)
          /\ UNCHANGED firstFailure
          /\ call' = [call EXCEPT ![c] = "page"]
          /\ got' = [got EXCEPT ![c] = cursor[w]]
          /\ cursor' = [cursor EXCEPT ![w] = cursor[w] + 1]
          /\ pc' = [r \in DOMAIN pc |->
                      IF r \in Range(Page(w, cursor[w])) THEN "save" ELSE pc[r]]
  /\ UNCHANGED <<cfg, store, backup, saveCalls, deleteCalls, savedOk, qMsg,
                 qNotif, result>>
  /\ UNCHANGED <<owned, previous, workflowVars, keysVars, moreVars>>

\* saveDataToBlob of record r returns
Save(r) ==
  /\ CanSave(r)
  /\ saveCalls' = [saveCalls EXCEPT ![r] = saveCalls[r] + 1]
  /\ \/ /\ backup' = WriteBlob(backup, BlobName(r), r)
        /\ savedOk' = savedOk \cup {r}
        /\ pc' = [pc EXCEPT ![r] = "delete"]
        /\ UNCHANGED firstFailure
     \/ /\ pc' = [pc EXCEPT ![r] = "failSave"]
        /\ firstFailure' = Noted(SaveFailureKind)
        /\ UNCHANGED <<backup, savedOk>>
  /\ UNCHANGED <<cfg, store, deleteCalls, call, got, cursor, qMsg, qNotif, result>>
  /\ UNCHANGED <<owned, previous, workflowVars, keysVars, moreVars>>

\* a store that acknowledges the delete of a record that is gone
DeleteAcknowledgesGone(r) ==
  /\ CanDelete(r)
  /\ deleteCalls' = [deleteCalls EXCEPT ![r] = deleteCalls[r] + 1]
  /\ \/ /\ store' = store \ {r}
        /\ pc' = [pc EXCEPT ![r] = "done"]
        /\ IF r \in DOMAIN call
             THEN call' = [call EXCEPT ![r] = AfterDelete(r)]
             ELSE UNCHANGED call
        /\ UNCHANGED firstFailure
     \/ /\ pc' = [pc EXCEPT ![r] = "failDelete"]
        /\ firstFailure' = Noted(DeleteFailureKind)
        /\ UNCHANGED <<store, call>>
  /\ UNCHANGED <<cfg, backup, saveCalls, savedOk, got, cursor, qMsg, qNotif, result>>
  /\ UNCHANGED <<owned, previous, workflowVars, keysVars, moreVars>>

\* the delete of record r returns; an item of a page goes on with the
\* recursive step, which calls executeNext
Delete(r) ==
  /\ CanDelete(r)
  /\ deleteCalls' = [deleteCalls EXCEPT ![r] = deleteCalls[r] + 1]
  /\ \/ /\ r \in store
        /\ store' = store \ {r}
        /\ pc' = [pc EXCEPT ![r] = "done"]
        /\ IF r \in DOMAIN call
             THEN call' = [call EXCEPT ![r] = AfterDelete(r)]
             ELSE UNCHANGED call
        /\ UNCHANGED firstFailure
     \/ /\ pc' = [pc EXCEPT ![r] = "failDelete"]
        /\ firstFailure' = Noted(DeleteFailureKind)
        /\ UNCHANGED <<store, call>>
  /\ UNCHANGED <<cfg, backup, saveCalls, savedOk, got, cursor, qMsg, qNotif, result>>
  /\ UNCHANGED <<owned, previous, workflowVars, keysVars, moreVars>>

\* the promise of the handler resolves
Return ==
  /\ result = "none"
  /\ AllUserDataRes # "PENDING"
  /\ result' = IF AllUserDataRes = "OK" THEN "SUCCESS" ELSE AllUserDataRes
  /\ UNCHANGED <<cfg, store, backup, saveCalls, deleteCalls, savedOk, pc, call,
                 got, cursor, qMsg, qNotif, firstFailure>>
  /\ UNCHANGED <<owned, previous, workflowVars, keysVars, moreVars>>

Next ==
  \/ Invoke
  \/ FindMessages
  \/ \E m \in Msgs(cfg) : ReadContent(m)
  \/ \E m \in Msgs(cfg) : FindNotifications(m)
  \/ StartProfile
  \/ \E c \in DOMAIN call : ExecuteNext(c)
  \/ \E r \in DOMAIN pc : Save(r)
  \/ \E r \in DOMAIN pc : Delete(r)
  \/ Return

Spec == Init /\ [][Next]_vars

\* the activity is invoked again for the same user after it has returned:
\* its queries now find what the invocation before left in the store
Rerun ==
  /\ result # "none"
  /\ owned' = store
  /\ previous' = result
  /\ result' = "none"
  /\ firstFailure' = "none"
  /\ saveCalls' = [r \in DOMAIN saveCalls |-> 0]
  /\ deleteCalls' = [r \in DOMAIN deleteCalls |-> 0]
  /\ savedOk' = {}
  /\ pc' = [r \in DOMAIN pc |-> "idle"]
  /\ call' = [x \in DOMAIN call |-> "idle"]
  /\ got' = [x \in DOMAIN got |-> 0]
  /\ cursor' = [w \in DOMAIN cursor |-> 0]
  /\ qMsg' = "idle"
  /\ qNotif' = [m \in DOMAIN qNotif |-> "idle"]
  /\ UNCHANGED <<cfg, store, backup, workflowVars, keysVars, moreVars>>

NextRerun == Next \/ Rerun

\* the users whose cascade is followed over several invocations
RerunConfigs == {c \in Configs : Cardinality(RecordsOf(c)) <= MaxRerunRecords}

InitRerun == \E c \in RerunConfigs : StartWith(c)

SpecRerun == InitRerun /\ [][NextRerun]_vars

\* the cascade of a user who owns two messages, each with the one status
\* version that is written when a message is created, and nothing else
SiblingConfigs ==
  {[valid |-> TRUE,
    nProfile |-> 0,
    msgs |-> <<[content |-> FALSE, nStatus |-> 1, notifs |-> << >>],
               [content |-> FALSE, nStatus |-> 1, notifs |-> << >>]>>,
    pageSize |-> p] : p \in 1..MaxPageSize}

InitSiblings == \E c \in SiblingConfigs : StartWith(c)

SpecSiblings == InitSiblings /\ [][Next]_vars

\* ------------------------------------- two invocations for the same user
\* nothing keeps the activity from being invoked for a user while another
\* invocation for that user is running: the two share the stores and each has
\* its own tasks. The variables of the cascade are those of the invocation
\* that makes the next step, the other invocation waits in other

MaxRaceRecords == 2

\* the invocation that makes the next step, as it is now
Running ==
  [saveCalls |-> saveCalls,
   deleteCalls |-> deleteCalls,
   savedOk |-> savedOk,
   pc |-> pc,
   call |-> call,
   got |-> got,
   cursor |-> cursor,
   qMsg |-> qMsg,
   qNotif |-> qNotif,
   result |-> result,
   firstFailure |-> firstFailure,
   owned |-> owned]

\* the invocation has not decoded its input yet
NotStarted(x) == x.qMsg = "idle" /\ x.result = "none"

\* the next step is of the other invocation; the queries of an invocation that
\* starts now find what is in the store now
Switch ==
  /\ other' = Running
  /\ saveCalls' = other.saveCalls
  /\ deleteCalls' = other.deleteCalls
  /\ savedOk' = other.savedOk
  /\ pc' = other.pc
  /\ call' = other.call
  /\ got' = other.got
  /\ cursor' = other.cursor
  /\ qMsg' = other.qMsg
  /\ qNotif' = other.qNotif
  /\ result' = other.result
  /\ firstFailure' = other.firstFailure
  /\ owned' = IF NotStarted(other) THEN store ELSE other.owned
  /\ UNCHANGED <<cfg, store, backup, previous, workflowVars, keysVars, batchVars,
                 userVars>>

\* the delete of the content of message m returns when the other invocation
\* has removed the blob already: with success here, with a failure in Delete
DeleteGone(m) ==
  /\ CanDelete(MessageContent(m))
  /\ MessageContent(m) \notin store
  /\ deleteCalls' = [deleteCalls EXCEPT ![MessageContent(m)] = @ + 1]
  /\ pc' = [pc EXCEPT ![MessageContent(m)] = "done"]
  /\ UNCHANGED <<cfg, store, backup, saveCalls, savedOk, call, got, cursor, qMsg,
                 qNotif, result, firstFailure>>
  /\ UNCHANGED <<owned, previous, workflowVars, keysVars, moreVars>>

NextRace ==
  \/ Next
  \/ Switch
  \/ \E m \in Msgs(cfg) : DeleteGone(m)

\* the users for whom two invocations are followed
RaceConfigs == {c \in Configs : c.valid /\ Cardinality(RecordsOf(c)) <= MaxRaceRecords}

\* two invocations for a user who owns c, neither of them started
InitRace ==
  \E c \in RaceConfigs :
    /\ Invocation(c)
    /\ other = Fresh(c)
    /\ WorkflowIdle
    /\ KeysIdle
    /\ BatchIdle
    /\ UserIdle

SpecRace == InitRace /\ [][NextRace]_vars

\* ------------------------------------- the download sub-orchestrator's steps
RetriesForever(n) == TRUE

\* the retry policy of a business step: a bounded number of attempts
MayRetry(n) == n < MaxAttempts

CallActivityStamped(name, x) ==
  Append(activities, [activityName |-> name,
                      status |-> IF runs > 1 /\ x = "none" THEN "again" ELSE x])

CallsNothing(name, x) == activities

CallActivity(name, x) == Append(activities, [activityName |-> name, status |-> x])

\* a job is offered to the sub-orchestrator: its document is decoded and,
\* when it is processable, the update of the status to WIP is called
Start ==
  /\ step = "idle"
  /\ IF ProcessableUserDataProcessing(document)
       THEN /\ step' = "setWIP"
            /\ activities' = CallActivity("setUserDataProcessingStatusActivity", "WIP")
            /\ UNCHANGED outcome
       ELSE /\ step' = "done"
            /\ outcome' = InvalidInputFailure
            /\ UNCHANGED activities
  /\ UNCHANGED <<document, status, attempts, failure, outcomes, runs, cascadeVars, keysVars, moreVars>>

GoesOnAfterFailure(name, x) ==
  /\ failure' = ActivityFailure(name, x)
  /\ step' = "send"
  /\ activities' = CallActivity("sendUserDataDownloadMessageActivity", "none")

\* a run that ends at the step that failed, the status left as it is
EndsWithoutFailed(name, x) ==
  /\ failure' = ActivityFailure(name, x)
  /\ step' = "done"
  /\ UNCHANGED activities

\* a run that goes on to close the job whatever step has failed
ClosesAnyway(name, x) ==
  /\ failure' = ActivityFailure(name, x)
  /\ step' = "setCLOSED"
  /\ activities' = CallActivity("setUserDataProcessingStatusActivity", "CLOSED")

\* the step that failed is recorded and the update of the status to FAILED
\* is called
ToFailed(name, x) ==
  /\ failure' = ActivityFailure(name, x)
  /\ step' = "setFAILED"
  /\ activities' = CallActivity("setUserDataProcessingStatusActivity", "FAILED")

\* an activity attempt has returned, with success or not
Returned(ok) == outcomes' = Append(outcomes, ok)

\* setUserDataProcessingStatusActivity returns
SetStatusReturns ==
  /\ step \in {"setWIP", "setCLOSED", "setFAILED"}
  /\ \/ /\ step = "setWIP"
        /\ \/ /\ Returned(TRUE)
              /\ status' = "WIP"
              /\ step' = "extract"
              /\ attempts' = 1
              /\ activities' = CallActivity("extractUserDataActivity", "none")
              /\ UNCHANGED <<failure, outcome>>
           \/ /\ Returned(FALSE)
              /\ ToFailed("setUserDataProcessingStatusActivity", "WIP")
              /\ UNCHANGED <<status, attempts, outcome>>
     \/ /\ step = "setCLOSED"
        /\ \/ /\ Returned(TRUE)
              /\ status' = "CLOSED"
              /\ step' = "done"
              /\ outcome' = OrchestratorSuccess
              /\ UNCHANGED <<attempts, activities, failure>>
           \/ /\ Returned(FALSE)
              /\ ToFailed("setUserDataProcessingStatusActivity", "CLOSED")
              /\ UNCHANGED <<status, attempts, outcome>>
     \/ /\ step = "setFAILED"
        /\ step' = "done"
        /\ \/ /\ Returned(TRUE)
              /\ status' = "FAILED"
              /\ outcome' = failure
           \/ /\ Returned(FALSE)
              /\ outcome' = OrchestrationError
              /\ UNCHANGED status
        /\ UNCHANGED <<attempts, activities, failure>>
  /\ UNCHANGED <<document, runs, cascadeVars, keysVars, moreVars>>

\* an attempt of extractUserDataActivity returns
ExtractReturns ==
  /\ step = "extract"
  /\ \/ /\ Returned(TRUE)
        /\ step' = "send"
        /\ attempts' = 1
        /\ activities' = CallActivity("sendUserDataDownloadMessageActivity", "none")
        /\ UNCHANGED failure
     \/ /\ Returned(FALSE)
        /\ MayRetry(attempts)
        /\ attempts' = attempts + 1
        /\ UNCHANGED <<step, activities, failure>>
     \/ /\ Returned(FALSE)
        /\ ~MayRetry(attempts)
        /\ ToFailed("extractUserDataActivity", "none")
        /\ UNCHANGED attempts
  /\ UNCHANGED <<document, status, outcome, runs, cascadeVars, keysVars, moreVars>>

\* an attempt of sendUserDataDownloadMessageActivity returns
SendReturns ==
  /\ step = "send"
  /\ \/ /\ Returned(TRUE)
        /\ step' = "setCLOSED"
        /\ activities' = CallActivity("setUserDataProcessingStatusActivity", "CLOSED")
        /\ UNCHANGED <<attempts, failure>>
     \/ /\ Returned(FALSE)
        /\ MayRetry(attempts)
        /\ attempts' = attempts + 1
        /\ UNCHANGED <<step, activities, failure>>
     \/ /\ Returned(FALSE)
        /\ ~MayRetry(attempts)
        /\ ToFailed("sendUserDataDownloadMessageActivity", "none")
        /\ UNCHANGED attempts
  /\ UNCHANGED <<document, status, outcome, runs, cascadeVars, keysVars, moreVars>>

\* the job is offered again, as it is persisted now, or something that is no
\* job document is
Offer ==
  /\ step \in {"idle", "done"}
  /\ step = "idle" => runs = 0
  /\ runs < MaxRuns
  /\ runs' = runs + 1
  /\ \E d \in Documents :
       /\ d.valid => d.status = status
       /\ document' = d
  /\ step' = "idle"
  /\ attempts' = 0
  /\ activities' = << >>
  /\ failure' = NoOutcome
  /\ outcome' = NoOutcome
  /\ outcomes' = << >>
  /\ UNCHANGED <<status, cascadeVars, keysVars, moreVars>>

\* ------------------------------------------- the sub-orchestrator replayed
\* the orchestrator function run from its start on a document, up to the
\* first call it yields
RunStart(d) ==
  IF ProcessableUserDataProcessing(d)
    THEN [step |-> "setWIP", attempts |-> 0, failure |-> NoOutcome, outcome |-> NoOutcome,
          activities |-> <<[activityName |-> "setUserDataProcessingStatusActivity",
                            status |-> "WIP"]>>]
    ELSE [step |-> "done", attempts |-> 0, failure |-> NoOutcome,
          outcome |-> InvalidInputFailure, activities |-> << >>]

Yielded(w, name, x) == Append(w.activities, [activityName |-> name, status |-> x])

Failed(w, name, x) ==
  [w EXCEPT !.step = "setFAILED",
            !.failure = ActivityFailure(name, x),
            !.activities = Yielded(w, "setUserDataProcessingStatusActivity", "FAILED")]

\* the orchestrator function resumed with the result of the call it yielded
Resume(w, ok) ==
  CASE w.step = "setWIP" ->
         IF ok THEN [w EXCEPT !.step = "extract", !.attempts = 1,
                              !.activities = Yielded(w, "extractUserDataActivity", "none")]
         ELSE Failed(w, "setUserDataProcessingStatusActivity", "WIP")
    [] w.step = "extract" ->
         IF ok THEN [w EXCEPT !.step = "send", !.attempts = 1,
                              !.activities =
                                Yielded(w, "sendUserDataDownloadMessageActivity", "none")]
         ELSE IF MayRetry(w.attempts) THEN [w EXCEPT !.attempts = w.attempts + 1]
         ELSE Failed(w, "extractUserDataActivity", "none")
    [] w.step = "send" ->
         IF ok THEN [w EXCEPT !.step = "setCLOSED",
                              !.activities =
                                Yielded(w, "setUserDataProcessingStatusActivity", "CLOSED")]
         ELSE IF MayRetry(w.attempts) THEN [w EXCEPT !.attempts = w.attempts + 1]
         ELSE Failed(w, "sendUserDataDownloadMessageActivity", "none")
    [] w.step = "setCLOSED" ->
         IF ok THEN [w EXCEPT !.step = "done", !.outcome = OrchestratorSuccess]
         ELSE Failed(w, "setUserDataProcessingStatusActivity", "CLOSED")
    [] w.step = "setFAILED" ->
         [w EXCEPT !.step = "done",
                   !.outcome = IF ok THEN w.failure ELSE OrchestrationError]
    [] OTHER -> w

RECURSIVE Replay(_, _)

\* the orchestrator function run again from its start on document d and fed
\* the recorded results outs, as the framework does on every replay
Replay(d, outs) ==
  IF outs = << >> THEN RunStart(d)
  ELSE Resume(Replay(d, SubSeq(outs, 1, Len(outs) - 1)), outs[Len(outs)])

NextWorkflow ==
  \/ Offer
  \/ Start
  \/ SetStatusReturns
  \/ ExtractReturns
  \/ SendReturns

\* the job exists with any status before it is offered for the first time
InitWorkflow ==
  /\ cfg = [valid |-> FALSE, nProfile |-> 0, msgs |-> << >>, pageSize |-> 1]
  /\ store = {}
  /\ backup = {}
  /\ saveCalls = [r \in ItemsOf(cfg) |-> 0]
  /\ deleteCalls = [r \in ItemsOf(cfg) |-> 0]
  /\ savedOk = {}
  /\ pc = [r \in ItemsOf(cfg) |-> "idle"]
  /\ call = [x \in CallsOf(cfg) |-> "idle"]
  /\ got = [x \in CallsOf(cfg) |-> 0]
  /\ cursor = [w \in IteratorsOf(cfg) |-> 0]
  /\ qMsg = "idle"
  /\ qNotif = [m \in Msgs(cfg) |-> "idle"]
  /\ result = "none"
  /\ firstFailure = "none"
  /\ owned = {}
  /\ previous = "none"
  /\ document = [valid |-> FALSE, status |-> "none"]
  /\ status \in UserDataProcessingStatus
  /\ step = "idle"
  /\ attempts = 0
  /\ activities = << >>
  /\ failure = NoOutcome
  /\ outcome = NoOutcome
  /\ outcomes = << >>
  /\ runs = 0
  /\ KeysIdle
  /\ MoreIdle

SpecWorkflow == InitWorkflow /\ [][NextWorkflow]_vars

\* ------------------------------------------------ the download orchestrator
\* UserDataDownloadOrchestrator is started with the documents a change of the
\* jobs collection has brought, and starts a sub-orchestration for those it
\* accepts

MaxBatch == 3

\* what a document of the input may be: valid as a UserDataProcessing or not,
\* with any status
BatchDocuments == [valid : BOOLEAN, status : UserDataProcessingStatus]

\* the inputs: something that is no array of records, or an array of documents
Inputs ==
  {[isArray |-> FALSE, documents |-> << >>]}
  \cup {[isArray |-> TRUE, documents |-> ds] :
          ds \in UNION {[1..n -> BatchDocuments] : n \in 0..MaxBatch}}

RECURSIVE SubTasksOfAll(_, _)
SubTasksOfAll(ds, i) ==
  IF i > Len(ds) THEN << >> ELSE <<i>> \o SubTasksOfAll(ds, i + 1)

RECURSIVE SubTasksFrom(_, _)

\* documents.map(decode).reduce(...).map(callSubOrchestrator) from place i on:
\* a document that does not decode is skipped, one that does gets its call
SubTasksFrom(ds, i) ==
  IF i > Len(ds) THEN << >>
  ELSE IF ProcessableUserDataProcessing(ds[i])
         THEN <<i>> \o SubTasksFrom(ds, i + 1)
         ELSE SubTasksFrom(ds, i + 1)

CompletedWhenAnyIs(done) == done # {} \/ subTasks = << >>

\* context.df.Task.all(subTasks) is completed when every task is
AllCompleted(done) == done = 1..Len(subTasks)

\* the orchestrator is started: it throws on an input that is no array, and
\* otherwise calls the sub-orchestrator for every document it accepts and
\* yields the task of all of them
Orchestrate ==
  /\ ostep = "idle"
  /\ \E x \in Inputs :
       /\ input' = x
       /\ IF x.isArray
            THEN /\ subTasks' = SubTasksFrom(x.documents, 1)
                 /\ ostep' = "yielded"
            ELSE /\ subTasks' = << >>
                 /\ ostep' = "thrown"
  /\ UNCHANGED <<completed, cascadeVars, workflowVars, keysVars, raceVars, userVars>>

\* a sub-orchestration ends, whatever it returns
SubOrchestratorEnds(i) ==
  /\ ostep = "yielded"
  /\ i \in 1..Len(subTasks)
  /\ i \notin completed
  /\ completed' = completed \cup {i}
  /\ UNCHANGED <<input, subTasks, ostep, cascadeVars, workflowVars, keysVars, raceVars,
                 userVars>>

\* the orchestrator is resumed with the task of all the sub-orchestrations
\* completed, and ends
OrchestratorEnds ==
  /\ ostep = "yielded"
  /\ AllCompleted(completed)
  /\ ostep' = "done"
  /\ UNCHANGED <<input, subTasks, completed, cascadeVars, workflowVars, keysVars,
                 raceVars, userVars>>

NextBatch ==
  \/ Orchestrate
  \/ \E i \in 1..MaxBatch : SubOrchestratorEnds(i)
  \/ OrchestratorEnds

InitBatch == StartWith(NoUser)

SpecBatch == InitBatch /\ [][NextBatch]_vars

\* ------------------------------------------------------ the GetUser handler
\* GetUserHandler gets the API management client, lists the users that have
\* the email, and for the first of them fetches the groups and, page by page,
\* the subscriptions

MaxPages == 3
MaxPerPage == 2

\* what the API management holds: no user with the email, a user whose name
\* is empty or one with a name; and the subscriptions of the user, as the
\* number of them in each page
ApimStates ==
  [users : {"empty", "unnamed", "named"},
   pages : UNION {[1..n -> 0..MaxPerPage] : n \in 1..MaxPages}]

\* the subscriptions of page k
PageItems(k) == [i \in 1..apim.pages[k] |-> [page |-> k, idx |-> i]]

LastPageAlways(k) == 0

\* the nextLink of page k: the page after it, or none (0) on the last page
NextLinkOf(k) == IF k < Len(apim.pages) THEN k + 1 ELSE 0

AnyListIsFound(u) == TRUE

\* fromPredicate(userList.length !== 0)
UserFound(u) == u # "empty"

\* NonEmptyString.decode(userList[0].name)
HasUserName(u) == u = "named"

\* a request arrives: getApiClient is called
GetUser ==
  /\ ustep = "idle"
  /\ apim' \in ApimStates
  /\ ustep' = "client"
  /\ UNCHANGED <<userList, groups, subs, uresponse>>
  /\ UNCHANGED <<cascadeVars, workflowVars, keysVars, raceVars, batchVars>>

\* getApiClient returns: the client, and listByService is called, or an error
ApiClientReturns ==
  /\ ustep = "client"
  /\ \/ /\ ustep' = "list"
        /\ UNCHANGED uresponse
     \/ /\ ustep' = "done"
        /\ uresponse' = [kind |-> "IResponseErrorInternal", subscriptions |-> << >>]
  /\ UNCHANGED <<apim, userList, groups, subs>>
  /\ UNCHANGED <<cascadeVars, workflowVars, keysVars, raceVars, batchVars>>

\* user.listByService returns: an error, no user, a user without a name, or
\* a user with a name, whose groups and subscriptions are then fetched together
ListByServiceReturns ==
  /\ ustep = "list"
  /\ \/ /\ userList' = "failed"
        /\ ustep' = "done"
        /\ uresponse' = [kind |-> "IResponseErrorInternal", subscriptions |-> << >>]
        /\ UNCHANGED <<groups, subs>>
     \/ /\ userList' = apim.users
        /\ IF ~UserFound(apim.users)
          THEN /\ ustep' = "done"
               /\ uresponse' = [kind |-> "IResponseErrorNotFound", subscriptions |-> << >>]
               /\ UNCHANGED <<groups, subs>>
          ELSE IF ~HasUserName(apim.users)
                 THEN /\ ustep' = "done"
                      /\ uresponse' = [kind |-> "IResponseErrorInternal",
                                       subscriptions |-> << >>]
                      /\ UNCHANGED <<groups, subs>>
                 ELSE /\ ustep' = "fetch"
                      /\ groups' = "inflight"
                      /\ subs' = [state |-> "inflight", list |-> << >>, nextLink |-> 1,
                                  requests |-> <<1>>]
                      /\ UNCHANGED uresponse
  /\ UNCHANGED apim
  /\ UNCHANGED <<cascadeVars, workflowVars, keysVars, raceVars, batchVars>>

\* getUserGroups returns
UserGroupsReturn ==
  /\ groups = "inflight"
  /\ groups' \in {"ok", "fail"}
  /\ UNCHANGED <<apim, ustep, userList, subs, uresponse>>
  /\ UNCHANGED <<cascadeVars, workflowVars, keysVars, raceVars, batchVars>>

\* userSubscription.list or listNext returns: an error, which ends
\* getUserSubscriptions, or a page, which is pushed on the list and whose
\* nextLink, if it has one, is requested
SubscriptionsPageReturns ==
  /\ subs.state = "inflight"
  /\ \/ subs' = [subs EXCEPT !.state = "fail"]
     \/ LET k == subs.nextLink
            link == NextLinkOf(k)
        IN subs' = [state |-> IF link = 0 THEN "ok" ELSE "inflight",
                    list |-> subs.list \o PageItems(k),
                    nextLink |-> link,
                    requests |-> IF link = 0 THEN subs.requests
                                 ELSE Append(subs.requests, link)]
  /\ UNCHANGED <<apim, ustep, userList, groups, uresponse>>
  /\ UNCHANGED <<cascadeVars, workflowVars, keysVars, raceVars, batchVars>>

\* sequenceT(taskEither) has both results: the response is made of them
UserInfoReturns ==
  /\ ustep = "fetch"
  /\ groups \in {"ok", "fail"}
  /\ subs.state \in {"ok", "fail"}
  /\ ustep' = "done"
  /\ uresponse' = IF groups = "ok" /\ subs.state = "ok"
                    THEN [kind |-> "IResponseSuccessJson", subscriptions |-> subs.list]
                    ELSE [kind |-> "IResponseErrorInternal", subscriptions |-> << >>]
  /\ UNCHANGED <<apim, userList, groups, subs>>
  /\ UNCHANGED <<cascadeVars, workflowVars, keysVars, raceVars, batchVars>>

NextUser ==
  \/ GetUser
  \/ ApiClientReturns
  \/ ListByServiceReturns
  \/ UserGroupsReturn
  \/ SubscriptionsPageReturns
  \/ UserInfoReturns

InitUser == StartWith(NoUser)

SpecUser == InitUser /\ [][NextUser]_vars

\* ------------------------------------------- the subscription-keys handler
\* GetSubscriptionKeysHandler is built with the token it caches, if any, and
\* answers each request by logging in when it must, looking the subscription
\* up in the API management and turning the outcome into a response

\* the clock stops here
MaxTime == 3

\* how long after the login a fresh token expires
TokenLifetime == 2

\* the status of the error the lookup of a subscription that does not exist
\* is rejected with
NotFoundStatus == 404

\* the statuses a rejected lookup comes with; an error that is not a RestError
\* carries none, which is 0 here
ErrorStatuses == {0, 401, NotFoundStatus, 500}

\* the lookup resolved with the subscription and its keys
Resolved == [kind |-> "resolved", statusCode |-> 0]

\* the lookup was rejected with an error of status c
RestError(c) == [kind |-> "rejected", statusCode |-> c]

\* the ways the lookup can end
LookupOutcomes == {Resolved} \cup {RestError(c) : c \in ErrorStatuses}

\* a handler that looks only at whether it holds a token, never at its expiry
MustLoginWhenMissing == token = NoToken

\* the cached token cannot be used: there is none, or it has expired
MustLogin == token = NoToken \/ token <= now

\* a handler that takes every rejected lookup for an internal error
EveryErrorIsInternal(o) ==
  IF o.kind = "resolved" THEN "IResponseSuccessJson" ELSE "IResponseErrorInternal"

\* the response the handler makes of the outcome of the lookup
ResponseOf(o) ==
  IF o.kind = "resolved" THEN "IResponseSuccessJson"
  ELSE IF o.statusCode = NotFoundStatus THEN "IResponseErrorNotFound"
  ELSE "IResponseErrorInternal"

\* a request arrives: the handler logs in with the service principal secret
\* when it cannot use the cached token, and goes on to the lookup otherwise
GetSubscriptionKeys ==
  /\ kstep \in {"idle", "done"}
  /\ lookup' = NoLookup
  /\ response' = "none"
  /\ IF MustLogin
       THEN kstep' = "login" /\ logins' = 1
       ELSE kstep' = "get" /\ logins' = 0
  /\ UNCHANGED <<token, now, cascadeVars, workflowVars, moreVars>>

\* loginWithServicePrincipalSecret returns: with credentials, whose token the
\* handler may or may not keep for the requests to come, or with an error
LoginReturns ==
  /\ kstep = "login"
  /\ \/ /\ token' \in {token, now + TokenLifetime}
        /\ kstep' = "get"
        /\ UNCHANGED response
     \/ /\ response' = "IResponseErrorInternal"
        /\ kstep' = "done"
        /\ UNCHANGED token
  /\ UNCHANGED <<now, logins, lookup, cascadeVars, workflowVars, moreVars>>

\* subscription.get returns: the keys, or a rejection with some status
GetReturns ==
  /\ kstep = "get"
  /\ \E o \in LookupOutcomes :
       /\ lookup' = o
       /\ response' = ResponseOf(o)
  /\ kstep' = "done"
  /\ UNCHANGED <<token, now, logins, cascadeVars, workflowVars, moreVars>>

\* time passes
Tick ==
  /\ now < MaxTime
  /\ now' = now + 1
  /\ UNCHANGED <<token, kstep, logins, lookup, response, cascadeVars, workflowVars, moreVars>>

NextKeys ==
  \/ GetSubscriptionKeys
  \/ LoginReturns
  \/ GetReturns
  \/ Tick

\* the handler has been built, with no token or with one that expires at some
\* time, and has not been called
InitKeys ==
  /\ cfg = [valid |-> FALSE, nProfile |-> 0, msgs |-> << >>, pageSize |-> 1]
  /\ store = {}
  /\ backup = {}
  /\ saveCalls = [r \in ItemsOf(cfg) |-> 0]
  /\ deleteCalls = [r \in ItemsOf(cfg) |-> 0]
  /\ savedOk = {}
  /\ pc = [r \in ItemsOf(cfg) |-> "idle"]
  /\ call = [x \in CallsOf(cfg) |-> "idle"]
  /\ got = [x \in CallsOf(cfg) |-> 0]
  /\ cursor = [w \in IteratorsOf(cfg) |-> 0]
  /\ qMsg = "idle"
  /\ qNotif = [m \in Msgs(cfg) |-> "idle"]
  /\ result = "none"
  /\ firstFailure = "none"
  /\ owned = {}
  /\ previous = "none"
  /\ WorkflowIdle
  /\ token \in {NoToken} \cup (0 .. MaxTime)
  /\ now = 0
  /\ kstep = "idle"
  /\ logins = 0
  /\ lookup = NoLookup
  /\ response = "none"
  /\ MoreIdle

SpecKeys == InitKeys /\ [][NextKeys]_vars


TypeOK ==
  /\ store \subseteq RecordsOf(cfg)
  /\ \A r \in DOMAIN pc : pc[r] \in {"idle", "read", "readFailed", "absent", "save",
                                     "delete", "done", "failSave", "failDelete"}
  /\ \A c \in DOMAIN call : call[c] \in {"idle", "inflight", "fail", "none", "page"}
  /\ result \in {"none", "SUCCESS", "INVALID_INPUT_FAILURE", "QUERY_FAILURE",
                 "BLOB_FAILURE", "DELETE_FAILURE"}
  /\ status \in UserDataProcessingStatus
  /\ step \in {"idle", "setWIP", "extract", "send", "setCLOSED", "setFAILED", "done"}
  /\ attempts \in 0..MaxAttempts
  /\ runs \in 0..MaxRuns
  /\ token \in {NoToken} \cup (0 .. MaxTime + TokenLifetime)
  /\ now \in 0 .. MaxTime
  /\ kstep \in {"idle", "login", "get", "done"}
  /\ logins \in {0, 1}
  /\ lookup \in {NoLookup} \cup LookupOutcomes
  /\ response \in {"none", "IResponseSuccessJson", "IResponseErrorNotFound",
                   "IResponseErrorInternal"}
  /\ ostep \in {"idle", "yielded", "thrown", "done"}
  /\ completed \subseteq 1..Len(subTasks)
  /\ ustep \in {"idle", "client", "list", "fetch", "done"}
  /\ userList \in {"none", "failed", "empty", "unnamed", "named"}
  /\ groups \in {"idle", "inflight", "ok", "fail"}
  /\ subs.state \in {"idle", "inflight", "ok", "fail"}
  /\ uresponse.kind \in {"none", "IResponseSuccessJson", "IResponseErrorNotFound",
                          "IResponseErrorInternal"}
\* ---------------------------------------------------------------- claims
FailedChain(r) == pc[r] \in {"failSave", "failDelete"}

\* some external call made for message m's children has failed
\* (a failed content read is not one: it is folded into no content)
ChildFailure(m) ==
  \/ \E r \in DOMAIN pc : r.m = m /\ r.kind # "message" /\ FailedChain(r)
  \/ \E c \in DOMAIN call : c.m = m /\ call[c] = "fail"
  \/ qNotif[m] = "fail"

QueryFailed ==
  \/ qMsg = "fail"
  \/ \E m \in DOMAIN qNotif : qNotif[m] = "fail"
  \/ \E c \in DOMAIN call : call[c] = "fail"

DeleteFailed == \E r \in DOMAIN pc : pc[r] = "failDelete"

\* some page fetch, save or delete of the walk over iterator w has failed
WalkFailed(w) ==
  \/ \E c \in DOMAIN call : IteratorOf(c) = w /\ call[c] = "fail"
  \/ \E r \in DOMAIN pc : r.kind \in VersionedKinds /\ IteratorOf(r) = w /\ FailedChain(r)

InFlight(w) == {c \in DOMAIN call : IteratorOf(c) = w /\ call[c] = "inflight"}

ProfileTouched ==
  \/ call[ProfileIterator] # "idle"
  \/ \E r \in DOMAIN pc : r.kind = "profile" /\ (saveCalls[r] > 0 \/ deleteCalls[r] > 0)

\* C1: in every execution, a delete call for a record is issued only after
\* the backup save call for that same record has completed successfully.
BackupBeforeDelete == \A r \in DOMAIN pc : deleteCalls[r] > 0 => r \in savedOk

\* C1 witness: a record was deleted in a cascade in which another chain failed
BackupBeforeDeleteWitness ==
  \E r, q \in DOMAIN pc : deleteCalls[r] > 0 /\ r \notin store /\ FailedChain(q)

\* C2: once the delete of a message has been called, none of its children
\* (content blob, message-status versions, notifications) is in the primary
\* store.
MessageDeletedAfterChildren ==
  \A m \in Msgs(cfg) :
    deleteCalls[Message(m)] > 0 =>
      \A r \in store :
        ~(r.m = m /\ r.kind \in {"messagecontent", "message-status", "notification"})

\* C3: when the activity returns SUCCESS, no record owned by the user remains
\* in the primary store.
SuccessLeavesNoRecord == result = "SUCCESS" => store = {}

\* C4: no backup blob name is written for two different records, and every
\* record the cascade deleted has a blob holding its own content.
DistinctBackupBlobs ==
  /\ \A r, q \in savedOk : BlobName(r) = BlobName(q) => r = q
  /\ \A r \in RecordsOf(cfg) :
       r \notin store => [path |-> BlobName(r), content |-> r] \in backup

\* C5 as stated: if the backup save of a record fails, the delete of that
\* record is never called and the cascade returns BLOB_FAILURE.
SaveFailureGivesBlobFailure ==
  \A r \in DOMAIN pc :
    pc[r] = "failSave" =>
      /\ deleteCalls[r] = 0
      /\ result # "none" => result = "BLOB_FAILURE"

\* C5 amended: if the backup save of a record fails, the delete of that
\* record is never called and the cascade returns a failure, which is
\* BLOB_FAILURE whenever no query and no delete has failed in the cascade.
SaveFailureGivesFailure ==
  \A r \in DOMAIN pc :
    pc[r] = "failSave" =>
      /\ deleteCalls[r] = 0
      /\ result # "none" =>
           /\ result \in {"BLOB_FAILURE", "QUERY_FAILURE", "DELETE_FAILURE"}
           /\ (~QueryFailed /\ ~DeleteFailed) => result = "BLOB_FAILURE"

\* C5 witness: a save failed and the activity returned BLOB_FAILURE
SaveFailureWitness ==
  \E r \in DOMAIN pc : pc[r] = "failSave" /\ result = "BLOB_FAILURE"

\* C6: if any child cascade of a message (content, status history,
\* notifications data) fails, neither the backup save nor the delete of the
\* message itself is ever called.
NoParentAfterChildFailure ==
  \A m \in Msgs(cfg) :
    ChildFailure(m) => saveCalls[Message(m)] = 0 /\ deleteCalls[Message(m)] = 0

\* C6 witness: the cascade has ended with a failed child of a message whose
\* other children were processed
NoParentAfterChildFailureWitness ==
  \E m \in Msgs(cfg) :
    /\ ChildFailure(m)
    /\ result # "none"
    /\ \E r \in DOMAIN pc : r.m = m /\ r.kind # "message" /\ deleteCalls[r] > 0

\* C7: no profile query, backup or delete is issued until the cascade of
\* every message has completed successfully; hence none ever is when a
\* message cascade fails.
ProfileLast ==
  ProfileTouched =>
    /\ qMsg = "ok"
    /\ \A m \in Msgs(cfg) : pc[Message(m)] = "done" /\ ~ChildFailure(m)

\* C7 witness: a profile version was deleted for a user who had a message
ProfileLastWitness ==
  /\ Len(cfg.msgs) > 0
  /\ \E r \in DOMAIN pc : r.kind = "profile" /\ deleteCalls[r] > 0

SequentialPageFetches == \A w \in DOMAIN cursor : Cardinality(InFlight(w)) <= 1

\* C10: once a save, a delete or a page fetch of a walk has failed, the walk
\* calls executeNext no more, and its result is a failure.
NoFetchAfterFailure ==
  /\ [][\A c \in DOMAIN call :
          (WalkFailed(IteratorOf(c)) /\ call'[c] = "inflight") => call[c] = "inflight"]_vars
  /\ [](\A w \in DOMAIN cursor : WalkFailed(w) => CallRes(w) # "OK")
\* some external call of the cascade has failed, read of a content included
CallFailed ==
  \/ QueryFailed
  \/ \E r \in DOMAIN pc : pc[r] \in {"failSave", "failDelete", "readFailed"}

\* C11: the cascade never returns SUCCESS after one of its external calls
\* (query, page fetch, content read, save, delete) has failed.
NoSuccessAfterFailedCall == result = "SUCCESS" => ~CallFailed

\* C13: for a message without content the content step writes no blob and
\* calls no delete, and it does not keep the message from being processed:
\* once the other children are done the message's own save is called.
AbsentContentIsNoFailure ==
  \A m \in Msgs(cfg) :
    ~cfg.msgs[m].content =>
      /\ saveCalls[MessageContent(m)] = 0
      /\ deleteCalls[MessageContent(m)] = 0
      /\ \A b \in backup : b.path # BlobName(MessageContent(m))
      /\ pc[MessageContent(m)] \in {"idle", "read", "absent"}
      /\ (/\ pc[MessageContent(m)] = "absent"
          /\ CallRes(Iterator("message-status", m, 0)) = "OK"
          /\ AllNotificationsRes(m) = "OK"
          /\ pc[Message(m)] = "idle") => CanSave(Message(m))
      /\ result = "SUCCESS" => Message(m) \notin store

\* C13 witness: a message without content has been backed up and deleted
AbsentContentWitness ==
  \E m \in Msgs(cfg) :
    /\ ~cfg.msgs[m].content
    /\ pc[MessageContent(m)] = "absent"
    /\ Message(m) \notin store
    /\ Message(m) \in savedOk

\* C16: no step of the cascade, failed or not, puts a record back in the
\* primary store or removes a blob from the backup container.
NoCompensation ==
  [][/\ store' \subseteq store
     /\ \A b \in backup : \E x \in backup' : x.path = b.path]_vars

\* C16 witness: the cascade has failed after it deleted a record
NoCompensationWitness ==
  /\ result \in {"QUERY_FAILURE", "BLOB_FAILURE", "DELETE_FAILURE"}
  /\ store # RecordsOf(cfg)
  /\ \E b \in backup : b.content \notin store
  /\ \E r \in DOMAIN pc : FailedChain(r) /\ r \in store

\* C17: when the input does not decode the activity returns
\* INVALID_INPUT_FAILURE and makes no query, no save and no delete.
InvalidInputDoesNothing ==
  ~cfg.valid =>
    /\ result \in {"none", "INVALID_INPUT_FAILURE"}
    /\ qMsg = "idle"
    /\ \A m \in DOMAIN qNotif : qNotif[m] = "idle"
    /\ \A c \in DOMAIN call : call[c] = "idle"
    /\ \A r \in DOMAIN pc : pc[r] = "idle" /\ saveCalls[r] = 0 /\ deleteCalls[r] = 0
    /\ store = RecordsOf(cfg)
    /\ backup = {}

\* C17 witness: INVALID_INPUT_FAILURE was returned for a user who owns records
InvalidInputWitness ==
  ~cfg.valid /\ result = "INVALID_INPUT_FAILURE" /\ RecordsOf(cfg) # {}

\* C18: the save of a notification is called only after every version of
\* its status has been backed up and deleted; when the walk over its statuses
\* fails the notification is neither backed up nor deleted.
NotificationAfterStatuses ==
  \A r \in DOMAIN pc :
    r.kind = "notification" =>
      /\ saveCalls[r] > 0 =>
           \A q \in DOMAIN pc :
             (q.kind = "notification-status" /\ q.m = r.m /\ q.n = r.n) =>
               q \in savedOk /\ q \notin store /\ deleteCalls[q] = 1
      /\ WalkFailed(Iterator("notification-status", r.m, r.n)) =>
           saveCalls[r] = 0 /\ deleteCalls[r] = 0

\* C18 witness: a notification was deleted after the versions of its status
NotificationAfterStatusesWitness ==
  \E r, q \in DOMAIN pc :
    /\ r.kind = "notification" /\ deleteCalls[r] > 0
    /\ q.kind = "notification-status" /\ q.m = r.m /\ q.n = r.n
FailureResults == {"QUERY_FAILURE", "BLOB_FAILURE", "DELETE_FAILURE"}

\* the kinds of the calls of this invocation that have failed
FailedKinds ==
  {k \in FailureResults :
     \/ k = "QUERY_FAILURE" /\ QueryFailed
     \/ k = "BLOB_FAILURE" /\ \E r \in DOMAIN pc : pc[r] = "failSave"
     \/ k = "DELETE_FAILURE" /\ DeleteFailed}

SourceOrder(w) ==
  LET vs == Sorted(VersionsOf(w))
  IN [i \in DOMAIN vs |-> ItemValue(Rec(w.kind, w.m, w.n, vs[i]))]

\* C19: a walk that succeeded returns the flat list of the records it
\* processed, in source order, each of them once.
WalkReturnsFlatList ==
  \A w \in DOMAIN cursor :
    CallRes(w) = "OK" => CallValue(w) = SourceOrder(w)
\* the invocation runs for a user who owns nothing, or right after an
\* invocation that returned SUCCESS
NothingToDo == cfg.valid /\ (owned = {} \/ previous = "SUCCESS")

NoSaveNoDelete == \A r \in DOMAIN pc : saveCalls[r] = 0 /\ deleteCalls[r] = 0

\* C14: the cascade of a user who owns no record, or the one run right after
\* a successful run, returns SUCCESS with no save and no delete.
NothingToDoGivesSuccess ==
  (NothingToDo /\ result # "none") => (result = "SUCCESS" /\ NoSaveNoDelete)

\* C14: the cascade of a user who owns no record, and the one run right after
\* a successful run, calls no save and no delete and changes neither the
\* store nor the backup container; it returns SUCCESS unless one of its
\* queries fails, and QUERY_FAILURE then.
NothingToDoChangesNothing ==
  /\ [][NothingToDo => (store' = store /\ backup' = backup)]_vars
  /\ [](NothingToDo =>
          /\ NoSaveNoDelete
          /\ result \in {"none", "SUCCESS", "QUERY_FAILURE"}
          /\ result = "QUERY_FAILURE" => QueryFailed
          /\ (result # "none" /\ ~QueryFailed) => result = "SUCCESS")

\* C14 witness: a second invocation has returned SUCCESS right after one
\* that backed up and deleted the user's records with SUCCESS
NothingToDoWitness ==
  /\ previous = "SUCCESS"
  /\ result = "SUCCESS"
  /\ backup # {}
  /\ RecordsOf(cfg) # {}

\* C15: an invocation that follows a failed one and in which no call fails
\* returns SUCCESS and leaves no record of the user in the store.
RerunConverges ==
  (previous \in FailureResults /\ result # "none" /\ ~CallFailed) =>
    (result = "SUCCESS" /\ store = {})

\* C20: a job whose status is WIP or CLOSED when it is offered is not
\* reprocessed: no status update and no business step is called, its status
\* stays what it was, and the run ends with a result that is no success.
SkippedJobIsNotReprocessed ==
  (document.valid /\ document.status \in {"WIP", "CLOSED"}) =>
    /\ step \in {"idle", "done"}
    /\ activities = << >>
    /\ status = document.status
    /\ step = "done" => outcome = InvalidInputFailure

\* C20 witness: the run on a job that was WIP has ended
SkippedJobWitness ==
  document.valid /\ document.status = "WIP" /\ step = "done"

\* C21: the persisted status of a job only moves along
\* PENDING -> WIP -> {CLOSED | FAILED}: nothing leaves CLOSED or FAILED and
\* nothing skips WIP.
StatusOnlyMovesForward ==
  [][status' # status =>
       <<status, status'>> \in {<<"PENDING", "WIP">>, <<"WIP", "CLOSED">>,
                                <<"WIP", "FAILED">>}]_vars

\* C21: the persisted status of a job only changes from PENDING or FAILED
\* to WIP (a failed job is started again), from WIP to CLOSED or FAILED, and
\* from PENDING to FAILED when the update to WIP itself failed; nothing
\* leaves CLOSED, and CLOSED is only reached from WIP.
StatusTransitions ==
  [][status' # status =>
       <<status, status'>> \in {<<"PENDING", "WIP">>, <<"FAILED", "WIP">>,
                                <<"WIP", "CLOSED">>, <<"WIP", "FAILED">>,
                                <<"PENDING", "FAILED">>}]_vars

\* C21 witness: a job that had failed has been started again and is WIP
StatusTransitionsWitness ==
  document.valid /\ document.status = "FAILED" /\ status = "WIP" /\ runs > 1
\* the calls the sub-orchestrator can issue
SetStatusCall(s) == [activityName |-> "setUserDataProcessingStatusActivity", status |-> s]
ExtractCall == [activityName |-> "extractUserDataActivity", status |-> "none"]
SendCall == [activityName |-> "sendUserDataDownloadMessageActivity", status |-> "none"]

\* the run is over for a job that was accepted
AcceptedRunEnded == ProcessableUserDataProcessing(document) /\ step = "done"

\* C22: a run in which every step succeeds issues exactly the calls
\* set-WIP, extract, send, set-CLOSED, in that order, leaves the job CLOSED
\* and returns the success value.
SuccessfulRunPersistsTwice ==
  /\ outcome = OrchestratorSuccess =>
       /\ ProcessableUserDataProcessing(document)
       /\ activities = <<SetStatusCall("WIP"), ExtractCall, SendCall, SetStatusCall("CLOSED")>>
       /\ status = "CLOSED"
  /\ (AcceptedRunEnded /\ failure = NoOutcome) => outcome = OrchestratorSuccess

\* C22 witness: the run on a PENDING job has returned the success value
SuccessfulRunWitness ==
  document.valid /\ document.status = "PENDING" /\ outcome = OrchestratorSuccess
BusinessSteps == {"extractUserDataActivity", "sendUserDataDownloadMessageActivity"}

\* a business step of this run has failed on every attempt: the update to
\* FAILED was called right after it
BusinessStepFailed ==
  /\ Len(activities) >= 2
  /\ activities[Len(activities)] = SetStatusCall("FAILED")
  /\ activities[Len(activities) - 1].activityName \in BusinessSteps

\* C23: when a business step fails the job is set to FAILED and the run
\* returns the ActivityFailure that names the step.
BusinessFailureSetsFailed ==
  (BusinessStepFailed /\ step = "done") => (status = "FAILED" /\ outcome = failure)

\* C23: when a business step fails the update to FAILED is called once,
\* right after the step that failed and as the last call of the run; the
\* failure recorded names that step; when the update to FAILED succeeds the job
\* is FAILED and the run returns that ActivityFailure, and when it fails the
\* job stays WIP and the run ends with an orchestration error.
BusinessFailureCallsFailedOnce ==
  BusinessStepFailed =>
    /\ activities \in {<<SetStatusCall("WIP"), ExtractCall, SetStatusCall("FAILED")>>,
                       <<SetStatusCall("WIP"), ExtractCall, SendCall,
                         SetStatusCall("FAILED")>>}
    /\ failure.kind = "ACTIVITY_FAILURE"
    /\ failure.activityName = activities[Len(activities) - 1].activityName
    /\ step \in {"setFAILED", "done"}
    /\ step = "done" =>
         \/ status = "FAILED" /\ outcome = failure
         \/ status = "WIP" /\ outcome = OrchestrationError

\* C23 witness: the send step failed after extract succeeded, and the run
\* returned its ActivityFailure
BusinessFailureWitness ==
  /\ step = "done"
  /\ outcome = ActivityFailure("sendUserDataDownloadMessageActivity", "none")
  /\ status = "FAILED"
\* C24: the calls are issued one at a time in the order set-WIP, extract,
\* send, set-CLOSED, each only when the one before it has succeeded: extract
\* in the step in which the WIP status is persisted, send in the step in which
\* extract succeeds, set-CLOSED in the step in which send succeeds.
StepsInOrder ==
  [][Len(activities') > Len(activities) =>
       LET a == activities'[Len(activities')]
       IN /\ activities' = Append(activities, a)
          /\ a = SetStatusCall("WIP") => (step = "idle" /\ activities = << >>)
          /\ a = ExtractCall =>
               /\ step = "setWIP" /\ status' = "WIP"
               /\ activities = <<SetStatusCall("WIP")>>
          /\ a = SendCall =>
               /\ step = "extract" /\ failure' = NoOutcome
               /\ activities = <<SetStatusCall("WIP"), ExtractCall>>
          /\ a = SetStatusCall("CLOSED") =>
               /\ step = "send" /\ failure' = NoOutcome
               /\ activities = <<SetStatusCall("WIP"), ExtractCall, SendCall>>]_vars

\* C24 witness: the update to CLOSED has been called after the three calls
\* before it
StepsInOrderWitness ==
  step = "setCLOSED" /\ Len(activities) = 4 /\ status = "WIP"
\* an update of the status to WIP or to CLOSED has failed in this run: the
\* update to FAILED was called right after it
StatusUpdateFailed ==
  /\ Len(activities) >= 2
  /\ activities[Len(activities)] = SetStatusCall("FAILED")
  /\ activities[Len(activities) - 1] \in {SetStatusCall("WIP"), SetStatusCall("CLOSED")}

\* C25: when the update to WIP or to CLOSED fails the run returns the
\* ActivityFailure of the status-update activity whose extra is the status
\* that was being set.
StatusFailureReturnsActivityFailure ==
  (StatusUpdateFailed /\ step = "done") =>
    /\ outcome.kind = "ACTIVITY_FAILURE"
    /\ outcome.activityName = "setUserDataProcessingStatusActivity"
    /\ outcome.extra = activities[Len(activities) - 1].status

\* C25: a failed update to WIP or to CLOSED is always followed by the call
\* of the update to FAILED, and the failure recorded is that of the
\* status-update activity with the status that was being set as extra; the run
\* returns it when the update to FAILED succeeds, and ends with an
\* orchestration error, the status left as it was, when that fails too.
StatusFailureCallsFailed ==
  /\ (step = "done" /\ activities # << >>) =>
       \/ activities[Len(activities)] = SetStatusCall("FAILED")
       \/ activities[Len(activities)] = SetStatusCall("CLOSED") /\ status = "CLOSED"
  /\ StatusUpdateFailed =>
       /\ failure.kind = "ACTIVITY_FAILURE"
       /\ failure.activityName = "setUserDataProcessingStatusActivity"
       /\ failure.extra = activities[Len(activities) - 1].status
       /\ step \in {"setFAILED", "done"}
       /\ step = "done" =>
            \/ status = "FAILED" /\ outcome = failure
            \/ /\ outcome = OrchestrationError
               /\ status = (IF failure.extra = "WIP" THEN document.status ELSE "WIP")

\* C25 witness: the update to CLOSED failed and the run returned its failure
StatusFailureWitness ==
  /\ step = "done"
  /\ outcome = ActivityFailure("setUserDataProcessingStatusActivity", "CLOSED")
  /\ status = "FAILED"
\* how far a run has gone: the place of its step, then the attempts made
StepRank ==
  CASE step = "idle" -> 0
    [] step = "setWIP" -> 1
    [] step = "extract" -> 2
    [] step = "send" -> 3
    [] step = "setCLOSED" -> 4
    [] step = "setFAILED" -> 5
    [] step = "done" -> 6

Progress == StepRank * (MaxAttempts + 1) + attempts

InvalidDocumentDoesNothing ==
  (~document.valid /\ runs > 0) =>
    /\ step \in {"idle", "done"}
    /\ activities = << >>
    /\ outcomes = << >>
    /\ step = "done" => outcome = InvalidInputFailure

\* C28 witness: the run on something that is no job document has ended, for
\* a job that is PENDING
InvalidDocumentWitness ==
  ~document.valid /\ step = "done" /\ status = "PENDING"

\* a request has just reached the subscription-keys handler
RequestArrives == kstep \in {"idle", "done"} /\ kstep' \in {"login", "get"}

EndedRunIsClosedOrFailed ==
  AcceptedRunEnded => status \in {"CLOSED", "FAILED"}

\* the last call of the run was the update to FAILED and it failed
FailedUpdateFailed ==
  /\ activities # << >>
  /\ activities[Len(activities)] = SetStatusCall("FAILED")
  /\ Len(outcomes) > 0
  /\ ~outcomes[Len(outcomes)]

\* C32: when a run on an accepted job has ended, it has returned the success
\* value and the job is CLOSED, or it has returned an ActivityFailure and the
\* job is FAILED, or the update to FAILED has failed, the run has ended with an
\* orchestration error and the job is left as it was when that update was
\* called, which is WIP unless the update to WIP was the step that failed.
EndedRunStatus ==
  AcceptedRunEnded =>
    \/ outcome = OrchestratorSuccess /\ status = "CLOSED"
    \/ outcome.kind = "ACTIVITY_FAILURE" /\ status = "FAILED"
    \/ /\ outcome = OrchestrationError
       /\ FailedUpdateFailed
       /\ status = (IF activities[Len(activities) - 1] = SetStatusCall("WIP")
                      THEN document.status ELSE "WIP")

\* C32 witness: a business step failed, the update to FAILED failed too and
\* the run has ended with the job left WIP
EndedRunWitness ==
  /\ AcceptedRunEnded
  /\ FailedUpdateFailed
  /\ activities[Len(activities) - 1] = SendCall
  /\ status = "WIP"

\* the attempts of this run that succeeded, in order
Succeeded == SelectSeq(outcomes, LAMBDA ok : ok)

\* C33: the status becomes CLOSED only in the step in which the update to
\* CLOSED succeeds, in a run that issued the calls set-WIP, extract, send,
\* set-CLOSED and no other, in which no step has failed and in which the update
\* to WIP, an attempt of extract and an attempt of send have succeeded; the
\* update to FAILED succeeds only in a run in which a step has failed; and a
\* run that returned the success value never called the update to FAILED.
ClosedOnlyAfterAllSteps ==
  /\ [][(status' = "CLOSED" /\ status # "CLOSED") =>
          /\ step = "setCLOSED"
          /\ activities = <<SetStatusCall("WIP"), ExtractCall, SendCall,
                            SetStatusCall("CLOSED")>>
          /\ failure = NoOutcome
          /\ outcomes[1]
          /\ Len(Succeeded) = 3
          /\ outcomes'[Len(outcomes')]]_vars
  /\ [][(step = "setFAILED" /\ status' = "FAILED") =>
          /\ failure.kind = "ACTIVITY_FAILURE"
          /\ \E i \in 1 .. Len(outcomes) : ~outcomes[i]]_vars
  /\ [](outcome.kind = "SUCCESS" =>
          \A i \in 1 .. Len(activities) : activities[i] # SetStatusCall("FAILED"))

\* C33 witness: a job that was FAILED has been closed by a run in which
\* extract succeeded at its second attempt
ClosedWitness ==
  /\ status = "CLOSED"
  /\ step = "done"
  /\ document.status = "FAILED"
  /\ Len(outcomes) = 5

\* some executeNext call on iterator w has returned none
Exhausted(w) == \E c \in DOMAIN call : IteratorOf(c) = w /\ call[c] = "none"

\* C34: executeNext is never called on an iterator after a call on that
\* iterator has returned none.
NoFetchAfterExhaustion ==
  [][\A c \in DOMAIN call :
       (call[c] # "inflight" /\ call'[c] = "inflight") => ~Exhausted(IteratorOf(c))]_vars

\* the records of the walk over iterator w
WalkRecords(w) == {r \in DOMAIN pc : r.kind \in VersionedKinds /\ IteratorOf(r) = w}

\* how far a call and the chain of a record have gone
CallRank(x) ==
  CASE x = "idle" -> 0
    [] x = "inflight" -> 1
    [] OTHER -> 2

ChainRank(x) ==
  CASE x = "idle" -> 0
    [] x = "read" -> 1
    [] x \in {"save", "absent", "readFailed"} -> 2
    [] x \in {"delete", "failSave"} -> 3
    [] OTHER -> 4

\* the records that are read through an iterator
Versioned == {r \in DOMAIN pc : r.kind \in VersionedKinds}

\* a step touches a walk
WalkStep == call' # call \/ \E r \in Versioned : pc'[r] # pc[r]

\* nothing of the walk over iterator w is left to do
WalkAtRest(w) ==
  /\ call[w] # "idle"
  /\ InFlight(w) = {}
  /\ \A r \in WalkRecords(w) : pc[r] \notin {"save", "delete"}

FailureKindMatchesOperation ==
  /\ result = "QUERY_FAILURE" => QueryFailed
  /\ result = "BLOB_FAILURE" => \E r \in DOMAIN pc : pc[r] = "failSave"
  /\ result = "DELETE_FAILURE" => DeleteFailed
  /\ result = "INVALID_INPUT_FAILURE" => (~cfg.valid /\ qMsg = "idle")
  /\ result # "USER_NOT_FOUND_FAILURE"
  /\ (~cfg.valid /\ result # "none") => result = "INVALID_INPUT_FAILURE"

\* C36 witness: a page fetch failed after the queries had succeeded and the
\* activity returned QUERY_FAILURE
FailureKindWitness ==
  /\ result = "QUERY_FAILURE"
  /\ qMsg = "ok"
  /\ \A m \in DOMAIN qNotif : qNotif[m] # "fail"
  /\ \E c \in DOMAIN call : call[c] = "fail"

\* both invocations have saved and deleted record r with success
BothDeleted(r) == pc[r] = "done" /\ other.pc[r] = "done"

\* a record leaves the store only in a step of an invocation that has written
\* its backup
RemovedAfterOwnBackup == [][\A r \in store \ store' : r \in savedOk]_vars

ToStart ==
  {i \in 1..Len(input.documents) :
     /\ input.documents[i].valid
     /\ input.documents[i].status \in {"PENDING", "FAILED"}}

\* C31: once the download orchestrator has run on a batch, a
\* sub-orchestration has been started once for each valid document whose status
\* is PENDING or FAILED and for no other, in the order of the input; none is
\* started later; and the orchestrator ends only when every sub-orchestration
\* it started has ended.
StartsEachProcessableOnce ==
  /\ [](ostep # "idle" =>
          /\ {subTasks[k] : k \in 1..Len(subTasks)} = ToStart
          /\ \A j, k \in 1..Len(subTasks) : j < k => subTasks[j] < subTasks[k])
  /\ [](ostep = "done" => completed = 1..Len(subTasks))
  /\ [][ostep # "idle" => subTasks' = subTasks]_vars

\* C31 witness: the orchestrator has ended on a batch of three documents of
\* which it skipped the second, a job that is WIP
BatchWitness ==
  /\ ostep = "done"
  /\ Len(input.documents) = 3
  /\ input.documents[2] = [valid |-> TRUE, status |-> "WIP"]
  /\ subTasks = <<1, 3>>
  /\ completed = {1, 2}

\* C38: GetUser answers not found exactly when the list of the users with
\* the email came back empty, and then neither the groups nor the
\* subscriptions have been asked for; they are asked for only when the list
\* holds a user with a name, and only in the step in which the list comes back.
NotFoundWithoutFetching ==
  /\ [](/\ uresponse.kind = "IResponseErrorNotFound" <=> userList = "empty"
        /\ userList = "empty" =>
             /\ ustep = "done"
             /\ groups = "idle"
             /\ subs.requests = << >>
        /\ (groups # "idle" \/ subs.requests # << >>) => userList = "named")
  /\ [][(groups = "idle" /\ groups' # "idle") \/ (subs.state = "idle" /\ subs'.state # "idle")
          => (ustep = "list" /\ userList' = "named" /\ groups' = "inflight"
              /\ subs'.requests = <<1>>)]_vars

\* C38 witness: the list came back empty and GetUser has answered not found
NotFoundWitness ==
  /\ ustep = "done"
  /\ userList = "empty"
  /\ uresponse.kind = "IResponseErrorNotFound"

RECURSIVE AllPagesFrom(_)
\* the subscriptions of page k and of the pages after it, in order
AllPagesFrom(k) ==
  IF k > Len(apim.pages) THEN << >>
  ELSE [i \in 1..apim.pages[k] |-> [page |-> k, idx |-> i]] \o AllPagesFrom(k + 1)

\* C39: getUserSubscriptions asks for the pages one at a time, each page
\* after the one whose nextLink names it has come back; it succeeds only when
\* the last page has come back, with the subscriptions of all the pages in the
\* order they were fetched; and when a page request fails GetUser returns an
\* error with no subscription in it.
SubscriptionsOfAllPages ==
  /\ [](/\ \A i \in 1..Len(subs.requests) : subs.requests[i] = i
        /\ subs.state = "inflight" => subs.nextLink = Len(subs.requests)
        /\ subs.state = "ok" =>
             /\ Len(subs.requests) = Len(apim.pages)
             /\ subs.list = AllPagesFrom(1)
        /\ (ustep = "done" /\ subs.state = "fail") =>
             /\ uresponse.kind = "IResponseErrorInternal"
             /\ uresponse.subscriptions = << >>
        /\ uresponse.kind = "IResponseSuccessJson" =>
             /\ subs.state = "ok"
             /\ uresponse.subscriptions = AllPagesFrom(1))
  /\ [][Len(subs'.requests) > Len(subs.requests) =>
          /\ subs'.requests = Append(subs.requests, Len(subs.requests) + 1)
          /\ subs.state \in {"idle", "inflight"}
          /\ Len(subs'.list) = Len(subs.list) + (IF subs.requests = << >> THEN 0
                                                 ELSE apim.pages[Len(subs.requests)])]_vars

\* C39 witness: three pages, the second of them empty, have been fetched
\* and GetUser has returned their subscriptions
SubscriptionsWitness ==
  /\ uresponse.kind = "IResponseSuccessJson"
  /\ Len(apim.pages) = 3
  /\ apim.pages[2] = 0
  /\ Len(uresponse.subscriptions) >= 2

====
